---- MODULE Spec2Model ----
(***************************************************************************)
(* Model of mopidy_json_client.client.SimpleClient: the connection        *)
(* supervisor (connect / disconnect / retry), the request queue and the    *)
(* dispatch of inbound frames to the result, error and event handlers.     *)
(*                                                                         *)
(* One WebSocketApp object is created by every _ws_connect; each runs in   *)
(* its own WSA thread, which also executes the on_open, on_message and     *)
(* on_close callbacks of that object.  The caller threads run connect(),   *)
(* disconnect() and _server_request().                                     *)
(***************************************************************************)
EXTENDS Integers, Sequences, FiniteSets

\* ------------------------------------------------------------------ bounds
MaxTransports == 3      \* WebSocketApp objects created in one behaviour
MaxRequests == 2        \* calls issued in one behaviour
MaxRetryMax == 1        \* largest retry_max the constructor is given

None == -1              \* Python's None for the integer field retry_attemp

Transports == 1..MaxTransports
Ids == 1..MaxRequests

VARIABLES
    retry_max,          \* constructor parameter
    handlers,           \* which of the three handlers are registered
    connected,          \* self.connected
    retry_attemp,       \* self.retry_attemp, None or a count
    wsa,                \* self.wsa: 0 (None) or the newest WebSocketApp
    ws,                 \* state of every WebSocketApp and of its thread
    request_queue,      \* self.request_queue: sequence of id_msg
    req,                \* the RequestMessage objects, by id_msg
    hist,               \* history: what the caller and the retries did
    last,               \* the step just taken and the handlers it invoked
    ws_url,             \* self.ws_url
    waiter,             \* the caller thread inside connect(wait_secs > 0)
    inst                \* two clients in one process: what they share

vars == <<retry_max, handlers, connected, retry_attemp, wsa, ws,
          request_queue, req, hist, last, ws_url, waiter, inst>>

config == <<retry_max, handlers>>

\* The constructor is given no handler at all, or all three
HandlerSets == {{}, {"event_handler", "error_handler", "connection_handler"}}

event_handler == "event_handler" \in handlers
error_handler == "error_handler" \in handlers
connection_handler == "connection_handler" \in handlers

\* ------------------------------------------------------------- helpers

\* retry_attemp = 0 if retry_max else None
InitialAttemp(rmax) == IF rmax # 0 THEN 0 ELSE None

NewRequest == [st |-> "new", out |-> "none"]

NoStep == [op |-> "init", id |-> 0, calls |-> {}]

\* No thread is inside connect(wait_secs > 0)
NoWaiter == [pc |-> "none", t |-> 0, opened |-> FALSE]

\* The clients of one process.  request_queue is an attribute of the class
\* SimpleClient, and the handlers ResponseMessage dispatches to are those
\* of the client constructed last.
Clients == {"A", "B"}

OneClient == [installed |-> "A", owner |-> [i \in Ids |-> "none"],
              open |-> {}, on |-> "none", by |-> "none"]

Live(t) == ws[t] \in {"connecting", "open"}

Created == {t \in Transports : ws[t] # "none"}

\* Positions of id in the request queue
Positions(q, id) == {k \in 1..Len(q) : q[k] = id}

RemoveAt(q, k) == SubSeq(q, 1, k - 1) \o SubSeq(q, k + 1, Len(q))

InQueue(q, id) == Positions(q, id) # {}

\* ------------------------------------------------------------- Init

Init ==
    /\ retry_max \in -1..MaxRetryMax
    /\ handlers \in HandlerSets
    /\ connected = FALSE
    /\ retry_attemp = InitialAttemp(retry_max)
    /\ wsa = 0
    /\ ws = [t \in Transports |-> "none"]
    /\ request_queue = <<>>
    /\ req = [i \in Ids |-> NewRequest]
    /\ hist = [user_off |-> FALSE, plain |-> TRUE, unreported |-> FALSE,
               stale |-> {}]
    /\ last = NoStep
    /\ ws_url = "constructor"
    /\ waiter = NoWaiter
    /\ inst = OneClient

\* ------------------------------------------------- connection supervisor

\* _ws_connect: a new WebSocketApp replaces self.wsa and its thread is started
NextWs == Cardinality(Created) + 1

WsConnectWs(w) == [w EXCEPT ![NextWs] = "connecting"]

\* _connection_changed: the handler thread is started only if one is registered
ConnectionChanged(handler, value) ==
    IF ~handler THEN {}
    ELSE IF value THEN {"connection_handler(True)"}
    ELSE {"connection_handler(False)"}

\* _ws_close, line 162: retry only while retry_attemp is not None
ShouldRetry(attemp) == attemp # None

\* Mutant: the limited branch compares with <= and so retries once more
RetryBranchOneMore(rmax, attemp) ==
    IF rmax < 0 THEN "infinite"
    ELSE IF attemp <= rmax THEN "limited"
    ELSE "exhausted"

\* _ws_retry: which of its three branches is taken
RetryBranch(rmax, attemp) ==
    IF rmax < 0 THEN "infinite"
    ELSE IF attemp < rmax THEN "limited"
    ELSE "exhausted"

\* The retry threads that are inside the time.sleep of _ws_retry
Sleepers == {t \in Transports : ws[t] = "retry_sleep"}

\* Mutant: the url argument is stored before is_connected() is tested
ConnectUrlFirst(isconnected, old, given) ==
    IF given THEN "argument" ELSE old

\* connect(), lines 70-77: self.ws_url after the call
ConnectUrl(isconnected, old, given) ==
    IF ~isconnected /\ given THEN "argument" ELSE old

\* connect(url): the caller asks for a connection, with a url or without
ConnectTo(given) ==
    /\ last' = [op |-> IF given THEN "connect_url" ELSE "connect",
                id |-> 0, calls |-> {}]
    /\ ws_url' = ConnectUrl(connected, ws_url, given)
    /\ hist' = [hist EXCEPT !.user_off = FALSE,
                            !.plain = @ /\ Created = {},
                            !.stale = IF connected THEN @
                                      ELSE @ \cup Sleepers]
    /\ IF connected
       THEN UNCHANGED <<retry_attemp, wsa, ws>>
       ELSE /\ NextWs \in Transports
            /\ retry_attemp' = InitialAttemp(retry_max)
            /\ ws' = WsConnectWs(ws)
            /\ wsa' = NextWs
    /\ UNCHANGED <<config, waiter, inst, connected, request_queue, req>>

\* connect() without a url
Connect == ConnectTo(FALSE)

\* wsa.close(): the socket of a running WebSocketApp is shut, its thread
\* leaves run_forever and then calls on_close
WsaClose(w, t) == IF w[t] \in {"connecting", "open"}
                  THEN [w EXCEPT ![t] = "closing"]
                  ELSE w

\* disconnect()
DisconnectAttemp(attemp) == None

Disconnect ==
    /\ last' = [op |-> "disconnect", id |-> 0, calls |-> {}]
    /\ hist' = [hist EXCEPT !.user_off = TRUE, !.plain = FALSE,
                            !.stale = @ \cup Sleepers]
    /\ retry_attemp' = DisconnectAttemp(retry_attemp)
    /\ ws' = IF connected THEN WsaClose(ws, wsa) ELSE ws
    /\ UNCHANGED <<config, ws_url, waiter, inst, connected, wsa, request_queue, req>>

\* conn_lock.notify() in _connection_changed: a thread that is inside
\* conn_lock.wait is woken; with no thread waiting the notification is lost
Notify(w) == IF w.pc = "waiting" THEN [w EXCEPT !.pc = "notified"] ELSE w

\* on_open of transport t: _ws_open
WsOpen(t) ==
    /\ ws[t] = "connecting"
    /\ waiter' = [Notify(waiter) EXCEPT !.opened =
                     @ \/ (waiter.pc \in {"before_wait", "waiting"}
                              /\ waiter.t = t)]
    /\ ws' = [ws EXCEPT ![t] = "open"]
    /\ connected' = TRUE
    /\ hist' = [hist EXCEPT !.plain = FALSE]
    /\ last' = [op |-> "ws_open", id |-> 0,
                calls |-> ConnectionChanged(connection_handler, TRUE)]
    /\ UNCHANGED <<config, ws_url, inst, retry_attemp, wsa, request_queue, req>>

\* The request queue after _ws_close
CloseQueue(q) == q

\* on_close of transport t: the connection attempt failed, the peer or a local
\* error closed the connection, or wsa.close() was called.  _ws_close, and
\* _ws_retry up to its time.sleep
WsClose(t) ==
    /\ ws[t] \in {"connecting", "open", "closing"}
    /\ connected' = FALSE
    /\ waiter' = IF connected THEN Notify(waiter) ELSE waiter
    /\ request_queue' = CloseQueue(request_queue)
    /\ LET branch == IF ShouldRetry(retry_attemp)
                     THEN RetryBranch(retry_max, retry_attemp)
                     ELSE "none"
          calls == IF connected
                   THEN ConnectionChanged(connection_handler, FALSE)
                   ELSE {}
       IN /\ ws' = [ws EXCEPT ![t] = IF branch \in {"infinite", "limited"}
                                     THEN "retry_sleep" ELSE "closed"]
          /\ hist' = [hist EXCEPT !.unreported =
                          IF calls # {} THEN FALSE
                          ELSE IF branch = "exhausted" THEN TRUE
                          ELSE @]
          /\ last' = [op |-> IF branch = "exhausted" THEN "ws_close_exhausted"
                             ELSE "ws_close",
                      id |-> 0, calls |-> calls]
    /\ UNCHANGED <<config, ws_url, inst, retry_attemp, wsa, req>>

\* _ws_retry after its time.sleep, in the thread of the closed transport t.
\* In the limited branch "self.retry_attemp += 1" raises TypeError when
\* disconnect() has set the counter to None meanwhile; the thread then ends.
RetryWake(t) ==
    /\ ws[t] = "retry_sleep"
    /\ IF retry_max >= 0 /\ retry_attemp = None
       THEN /\ ws' = [ws EXCEPT ![t] = "closed"]
            /\ last' = [op |-> "retry_error", id |-> 0, calls |-> {}]
            /\ UNCHANGED <<retry_attemp, wsa>>
       ELSE /\ NextWs \in Transports
            /\ retry_attemp' = IF retry_max < 0 THEN retry_attemp
                               ELSE retry_attemp + 1
            /\ ws' = [WsConnectWs(ws) EXCEPT ![t] = "closed"]
            /\ wsa' = NextWs
            /\ last' = [op |-> "retry_connect", id |-> 0, calls |-> {}]
    /\ hist' = [hist EXCEPT !.stale = @ \ {t}]
    /\ UNCHANGED <<config, ws_url, waiter, inst, connected, request_queue, req>>

\* ------------------------------------------------- requests and frames

\* RequestMessage: id_msg of the next request
NextId == Cardinality({i \in Ids : req[i].st # "new"}) + 1

\* wsa.send succeeds only on an open connection (self.wsa may be None)
SendOk == wsa # 0 /\ ws[wsa] = "open"

\* The request queue after _server_request, whether or not the send succeeded
RequestQueue(q, id, sent) == Append(q, id)

\* _server_request up to wait_for_result: the caller blocks, with or without
\* a timeout, or the send raises and the call returns None
Request(timed) ==
    /\ NextId \in Ids
    /\ request_queue' = RequestQueue(request_queue, NextId, SendOk)
    /\ req' = [req EXCEPT ![NextId] =
                 IF SendOk
                 THEN [st |-> IF timed THEN "waiting_timed" ELSE "waiting",
                       out |-> "none"]
                 ELSE [st |-> "done", out |-> "send_failed"]]
    /\ last' = [op |-> IF SendOk THEN "request" ELSE "request_failed",
                id |-> NextId, calls |-> {}]
    /\ UNCHANGED <<config, ws_url, waiter, inst, connected, retry_attemp, wsa, ws, hist>>

Waiting(r) == r.st \in {"waiting", "waiting_timed"}

\* request.callback(result): the waiter, if still blocked, returns the result
Callback(r) == IF Waiting(r) THEN [st |-> "done", out |-> "result"] ELSE r

\* wait_for_result gives up
Timeout(id) ==
    /\ req[id].st = "waiting_timed"
    /\ req' = [req EXCEPT ![id] = [st |-> "done", out |-> "timeout"]]
    /\ last' = [op |-> "timeout", id |-> id, calls |-> {}]
    /\ UNCHANGED <<config, ws_url, waiter, inst, connected, retry_attemp, wsa, ws, request_queue, hist>>

\* Mutant: the loop takes the first request without comparing its id_msg
ResultMatchFirst(q, id) == IF q # <<>> THEN 1 ELSE 0

\* _handle_result: the first request of the queue with this id_msg
ResultMatch(q, id) ==
    IF InQueue(q, id)
    THEN CHOOSE k \in Positions(q, id) : \A j \in Positions(q, id) : k <= j
    ELSE 0

ResultQueue(q, id) ==
    IF ResultMatch(q, id) = 0 THEN q ELSE RemoveAt(q, ResultMatch(q, id))

ResultReq(rq, q, id) ==
    IF ResultMatch(q, id) = 0 THEN rq
    ELSE [rq EXCEPT ![q[ResultMatch(q, id)]] = Callback(@)]

ResultCalls(q, id) == IF ResultMatch(q, id) = 0 THEN {} ELSE {"callback"}

\* A result frame {id, result} arrives on the open transport t
PeerResult(t, id) ==
    /\ ws[t] = "open"
    /\ request_queue' = ResultQueue(request_queue, id)
    /\ req' = ResultReq(req, request_queue, id)
    /\ last' = [op |-> "result", id |-> id,
                calls |-> ResultCalls(request_queue, id)]
    /\ UNCHANGED <<config, ws_url, waiter, inst, connected, retry_attemp, wsa, ws, hist>>

\* _handle_error
ErrorQueue(q, id) == q

ErrorReq(rq, q, id) == rq

ErrorCalls(handler) == IF handler THEN {"error_handler"} ELSE {}

\* An error frame {id, error} arrives on the open transport t
PeerError(t, id) ==
    /\ ws[t] = "open"
    /\ request_queue' = ErrorQueue(request_queue, id)
    /\ req' = ErrorReq(req, request_queue, id)
    /\ last' = [op |-> "error", id |-> id, calls |-> ErrorCalls(error_handler)]
    /\ UNCHANGED <<config, ws_url, waiter, inst, connected, retry_attemp, wsa, ws, hist>>

\* Mutant: every event is also reported to the error handler
EventCallsError(handler) ==
    IF handler THEN {"event_handler", "error_handler"} ELSE {}

\* _handle_event: the subscriber is called only if one is registered
EventCalls(handler) == IF handler THEN {"event_handler"} ELSE {}

EventQueue(q) == q

EventReq(rq) == rq

\* An event frame {event, data} arrives on the open transport t
PeerEvent(t) ==
    /\ ws[t] = "open"
    /\ request_queue' = EventQueue(request_queue)
    /\ req' = EventReq(req)
    /\ last' = [op |-> "event", id |-> 0, calls |-> EventCalls(event_handler)]
    /\ UNCHANGED <<config, ws_url, waiter, inst, connected, retry_attemp, wsa, ws, hist>>

\* Mutant: the exception leaves _server_response and ends run_forever
ServerResponseRaises(w, t) == [w EXCEPT ![t] = "closing"]

\* _server_response: an exception raised while the frame is parsed or while
\* a handler runs is caught and logged; the transport goes on
ServerResponseCaught(w, t) == w

\* What had been called when the exception was raised
FailureCalls(kind) ==
    IF kind = "malformed" THEN {} ELSE {kind}

\* A frame arrives on the open transport t that cannot be decoded, or whose
\* error_handler or event_handler raises
PeerFailure(t, kind) ==
    /\ ws[t] = "open"
    /\ kind \in {"malformed"} \cup (handlers \ {"connection_handler"})
    /\ ws' = ServerResponseCaught(ws, t)
    /\ last' = [op |-> "frame_failed", id |-> 0, calls |-> FailureCalls(kind)]
    /\ UNCHANGED <<config, ws_url, waiter, inst, connected, retry_attemp, wsa,
                   request_queue, req, hist>>

FailureKinds == {"malformed", "error_handler", "event_handler"}

Next ==
    \/ Connect
    \/ Disconnect
    \/ \E t \in Transports : WsOpen(t)
    \/ \E t \in Transports : WsClose(t)
    \/ \E t \in Transports : RetryWake(t)
    \/ \E timed \in BOOLEAN : Request(timed)
    \/ \E id \in Ids : Timeout(id)
    \/ \E t \in Transports, id \in Ids : PeerResult(t, id)
    \/ \E t \in Transports, id \in Ids : PeerError(t, id)
    \/ \E t \in Transports : PeerEvent(t)
    \/ \E t \in Transports, kind \in FailureKinds : PeerFailure(t, kind)

Spec == Init /\ [][Next]_vars

\* The connection supervisor alone: no call is issued and no frame arrives.
\* The call and frame steps never change connected, retry_attemp, wsa or ws.
NextConn ==
    \/ \E given \in BOOLEAN : ConnectTo(given)
    \/ Disconnect
    \/ \E t \in Transports : WsOpen(t)
    \/ \E t \in Transports : WsClose(t)
    \/ \E t \in Transports : RetryWake(t)

ConnSpec == Init /\ [][NextConn]_vars

\* Calls and frames on a client built with retry_max = 0 (so that no retry is
\* ever scheduled) whose caller connects but never disconnects; connections
\* still fail and are closed by the peer.
InitFrame == Init /\ retry_max = 0

NextFrame ==
    \/ Connect
    \/ \E t \in Transports : WsOpen(t)
    \/ \E t \in Transports : WsClose(t)
    \/ \E timed \in BOOLEAN : Request(timed)
    \/ \E id \in Ids : Timeout(id)
    \/ \E t \in Transports, id \in Ids : PeerResult(t, id)
    \/ \E t \in Transports, id \in Ids : PeerError(t, id)
    \/ \E t \in Transports : PeerEvent(t)
    \/ \E t \in Transports, kind \in FailureKinds : PeerFailure(t, kind)

FrameSpec == InitFrame /\ [][NextFrame]_vars

\* ------------------------------------------------- connect(wait_secs > 0)

\* connect(wait_secs > 0) up to its call of _ws_connect, by a caller that
\* finds the client not connected
ConnectWait ==
    /\ waiter.pc = "none"
    /\ ~connected
    /\ NextWs \in Transports
    /\ retry_attemp' = InitialAttemp(retry_max)
    /\ ws' = WsConnectWs(ws)
    /\ wsa' = NextWs
    /\ waiter' = [pc |-> "before_wait", t |-> NextWs, opened |-> FALSE]
    /\ hist' = [hist EXCEPT !.user_off = FALSE,
                            !.plain = @ /\ Created = {},
                            !.stale = @ \cup Sleepers]
    /\ last' = [op |-> "connect", id |-> 0, calls |-> {}]
    /\ UNCHANGED <<config, ws_url, inst, connected, request_queue, req>>

\* Lines 92-93: the caller takes conn_lock and calls conn_lock.wait
WaitEnter ==
    /\ waiter.pc = "before_wait"
    /\ waiter' = [waiter EXCEPT !.pc = "waiting"]
    /\ last' = [op |-> "wait", id |-> 0, calls |-> {}]
    /\ UNCHANGED <<config, ws_url, inst, connected, retry_attemp, wsa, ws,
                   request_queue, req, hist>>

\* conn_lock.wait(wait_secs) returns because wait_secs have passed
WaitTimeout ==
    /\ waiter.pc = "waiting"
    /\ waiter' = [waiter EXCEPT !.pc = "timed_out"]
    /\ last' = [op |-> "wait_timeout", id |-> 0, calls |-> {}]
    /\ UNCHANGED <<config, ws_url, inst, connected, retry_attemp, wsa, ws,
                   request_queue, req, hist>>

\* Line 95: connect() returns is_connected()
WaitReturn ==
    /\ waiter.pc \in {"notified", "timed_out"}
    /\ waiter' = NoWaiter
    /\ last' = [op |-> "connect_return", id |-> 0, calls |-> {}]
    /\ UNCHANGED <<config, ws_url, inst, connected, retry_attemp, wsa, ws,
                   request_queue, req, hist>>

NextWait ==
    \/ NextConn
    \/ ConnectWait
    \/ WaitEnter
    \/ WaitTimeout
    \/ WaitReturn

WaitSpec == Init /\ [][NextWait]_vars

\* ------------------------------------------------- two clients

\* self.request_queue of client c: the list is created once, in the class
\* body, and the clients only append to it and remove from it
QueueOf(c) == request_queue

\* ResponseMessage.set_handlers in __init__: the handlers of the client
\* constructed last replace those of the client constructed before
InitTwo ==
    /\ Init
    /\ \E c \in Clients : inst = [OneClient EXCEPT !.installed = c]

\* The transport of client c opens, or closes
TwoOpen(c) ==
    /\ c \notin inst.open
    /\ inst' = [inst EXCEPT !.open = @ \cup {c}, !.on = "none", !.by = "none"]
    /\ last' = [op |-> "ws_open", id |-> 0, calls |-> {}]
    /\ UNCHANGED <<config, ws_url, waiter, connected, retry_attemp, wsa, ws,
                   request_queue, req, hist>>

TwoClose(c) ==
    /\ c \in inst.open
    /\ inst' = [inst EXCEPT !.open = @ \ {c}, !.on = "none", !.by = "none"]
    /\ last' = [op |-> "ws_close", id |-> 0, calls |-> {}]
    /\ UNCHANGED <<config, ws_url, waiter, connected, retry_attemp, wsa, ws,
                   request_queue, req, hist>>

\* _server_request of client c
TwoRequest(c, timed) ==
    /\ NextId \in Ids
    /\ request_queue' = RequestQueue(QueueOf(c), NextId, c \in inst.open)
    /\ req' = [req EXCEPT ![NextId] =
                 IF c \in inst.open
                 THEN [st |-> IF timed THEN "waiting_timed" ELSE "waiting",
                       out |-> "none"]
                 ELSE [st |-> "done", out |-> "send_failed"]]
    /\ inst' = [inst EXCEPT !.owner[NextId] = c, !.on = "none", !.by = "none"]
    /\ last' = [op |-> IF c \in inst.open THEN "request" ELSE "request_failed",
                id |-> NextId, calls |-> {}]
    /\ UNCHANGED <<config, ws_url, waiter, connected, retry_attemp, wsa, ws,
                   hist>>

\* _server_response of client c: ResponseMessage.parse_json_message is given
\* the message alone and calls the handlers that were installed last
Dispatcher(c) == inst.installed

\* A frame arrives on the open transport of client c
TwoFrame(c, kind, id) ==
    /\ c \in inst.open
    /\ LET d == Dispatcher(c)
       IN /\ inst' = [inst EXCEPT !.on = c, !.by = d]
          /\ request_queue' =
                IF kind = "result" THEN ResultQueue(QueueOf(d), id)
                ELSE IF kind = "error" THEN ErrorQueue(QueueOf(d), id)
                ELSE EventQueue(QueueOf(d))
          /\ req' =
                IF kind = "result" THEN ResultReq(req, QueueOf(d), id)
                ELSE IF kind = "error" THEN ErrorReq(req, QueueOf(d), id)
                ELSE EventReq(req)
          /\ last' = [op |-> kind,
                      id |-> IF kind = "event" THEN 0 ELSE id,
                      calls |-> IF kind = "result"
                                THEN ResultCalls(QueueOf(d), id)
                                ELSE IF kind = "error"
                                THEN ErrorCalls(error_handler)
                                ELSE EventCalls(event_handler)]
    /\ UNCHANGED <<config, ws_url, waiter, connected, retry_attemp, wsa, ws,
                   hist>>

NextTwo ==
    \/ \E c \in Clients : TwoOpen(c)
    \/ \E c \in Clients : TwoClose(c)
    \/ \E c \in Clients, timed \in BOOLEAN : TwoRequest(c, timed)
    \/ \E id \in Ids : Timeout(id)
    \/ \E c \in Clients, id \in Ids : TwoFrame(c, "result", id)
    \/ \E c \in Clients, id \in Ids : TwoFrame(c, "error", id)
    \/ \E c \in Clients : TwoFrame(c, "event", 0)

TwoSpec == InitTwo /\ [][NextTwo]_vars

\* Timers fire, sleeping retry threads wake up, and every connection or
\* connection attempt ends at some time
FairSpec ==
    /\ Spec
    /\ WF_vars(\E id \in Ids : Timeout(id))
    /\ WF_vars(\E t \in Transports : RetryWake(t))
    /\ WF_vars(\E t \in Transports : WsClose(t))

\* ------------------------------------------------------------- claims

\* No WebSocketApp is running and no retry thread is sleeping
Quiet == \A t \in Transports : ws[t] \in {"none", "closed"}

Pending == {i \in Ids : Waiting(req[i])}

\* C1: every call that was sent and whose caller is blocked is eventually
\* released, whatever frames arrive and whenever the transport closes.
C1_EveryCallResolves ==
    \A i \in Ids : Waiting(req[i]) ~> (req[i].st = "done")

\* C2: once a transport close has been handled, no call is pending any more:
\* every caller that was blocked has been released.
C2_CloseFailsAllPending ==
    last.op \in {"ws_close", "ws_close_exhausted"} => Pending = {}

\* C3 (first half): between disconnect() and the next connect() no retry
\* starts a new transport.
C3_NoReconnectAfterDisconnect ==
    ~(last.op = "retry_connect" /\ hist.user_off)

\* C4: at most one WebSocketApp is connecting or open.
C4_AtMostOneLive ==
    Cardinality({t \in Transports : Live(t)}) <= 1

\* C5: a call whose send failed has left no request in the queue.
C5_FailedSendRegistersNothing ==
    last.op = "request_failed" => ~InQueue(request_queue, last.id)

\* C6: with retry_max = N >= 0, one connect(), no disconnect() and no attempt
\* that opened, at most N + 1 transports are ever started, and exactly N + 1
\* have been started once nothing is running or sleeping any more.
C6_RetriesStopAtMax ==
    (hist.plain /\ retry_max >= 0 /\ Created # {})
        => /\ Cardinality(Created) <= retry_max + 1
           /\ Quiet => Cardinality(Created) = retry_max + 1

C6_Witness ==
    /\ hist.plain
    /\ retry_max = MaxRetryMax
    /\ Quiet
    /\ last.op = "ws_close_exhausted"
    /\ Cardinality(Created) = MaxRetryMax + 1

\* C7: when the retries are exhausted and the client has come to rest, a
\* registered connection_handler has been told of the disconnection.
C7_ExhaustionReported ==
    (connection_handler /\ Quiet) => ~hist.unreported

\* C8: a result frame with an id that is not in the queue invokes no callback
\* and changes neither the queue nor any request; one with a queued id invokes
\* the callback of that request only and removes that request only.
C8_ResultTouchesOnlyItsRequest ==
    [][last'.op = "result" =>
        IF InQueue(request_queue, last'.id)
        THEN /\ request_queue' = SelectSeq(request_queue,
                                           LAMBDA x : x # last'.id)
             /\ Len(request_queue') = Len(request_queue) - 1
             /\ \A j \in Ids \ {last'.id} : req'[j] = req[j]
             /\ ~Waiting(req'[last'.id])
             /\ last'.calls = {"callback"}
        ELSE /\ request_queue' = request_queue
             /\ req' = req
             /\ last'.calls = {}
      ]_vars

C8_Witness ==
    /\ last.op = "result"
    /\ last.calls = {}
    /\ request_queue # <<>>
    /\ Pending # {}

\* C9: once an error frame for a call has been dispatched, that call is no
\* longer in the queue and its caller is no longer blocked.
C9_ErrorResolvesItsCall ==
    last.op = "error"
        => ~InQueue(request_queue, last.id) /\ last.id \notin Pending

\* C10: an event frame invokes the event handler if one is registered and
\* nothing else, and leaves the queue, the requests and the connection alone.
C10_EventOnlyNotifiesSubscriber ==
    [][last'.op = "event" =>
        /\ last'.calls = IF event_handler THEN {"event_handler"} ELSE {}
        /\ request_queue' = request_queue
        /\ req' = req
        /\ UNCHANGED <<connected, retry_attemp, wsa, ws>>
      ]_vars

C10_Witness ==
    /\ last.op = "event"
    /\ last.calls = {"event_handler"}
    /\ Pending # {}

\* C11: a call registered by one client is in the pending table of that
\* client only, and a frame received on the transport of one client is
\* handled by the handlers of that client.
C11_NoCrossInstanceLeak ==
    /\ \A i \in Ids, c \in Clients :
          InQueue(QueueOf(c), i) => inst.owner[i] = c
    /\ inst.on # "none" => inst.by = inst.on

\* C12: a retry that wakes up after a disconnect() or a fresh connect() was
\* called during its sleep starts no transport and leaves retry_attemp alone.
C12_StaleRetryDiscarded ==
    [][\A t \in hist.stale :
          (ws[t] = "retry_sleep" /\ ws'[t] # "retry_sleep")
              => (Created' = Created /\ retry_attemp' = retry_attemp)
      ]_vars

\* C13: after disconnect() was called while the newest connection attempt
\* was still in progress, the client stays disconnected until connect() is
\* called: the step that follows such a disconnect() does not leave the
\* client connected unless it is a connect().
C13_DisconnectWhileConnecting ==
    [][(/\ last.op = "disconnect"
        /\ ~connected
        /\ wsa # 0
        /\ ws[wsa] = "connecting")
          => (last'.op \in {"connect", "connect_url"} \/ ~connected')
      ]_vars

\* C14: when a connection opens, a retry counter that is in use is zero.
C14_OpenResetsAttemp ==
    (last.op = "ws_open" /\ retry_attemp # None) => retry_attemp = 0

\* C15: with a connection_handler registered, a step invokes it exactly when
\* the step changes connected, once and with the new value.
C15_HandlerOncePerChange ==
    [][connection_handler =>
          last'.calls \cap {"connection_handler(True)",
                            "connection_handler(False)"}
            = IF connected' = connected THEN {}
              ELSE IF connected' THEN {"connection_handler(True)"}
              ELSE {"connection_handler(False)"}
      ]_vars

\* C16: a caller of connect(wait_secs > 0) does not wait out the whole of
\* wait_secs when the transport that this connect() started has opened.
C16_OpenWakesWaiter ==
    ~(waiter.pc = "timed_out" /\ waiter.opened)

\* C17: a frame that cannot be decoded, or whose handler raises, changes
\* neither connected nor the request queue nor any request, and every
\* transport that was open is still open to receive the next frame.
C17_FailedFrameIsDropped ==
    [][last'.op = "frame_failed" =>
          /\ connected' = connected
          /\ request_queue' = request_queue
          /\ req' = req
          /\ \A t \in Transports : ws[t] = "open" => ws'[t] = "open"
      ]_vars

C17_Witness ==
    /\ last.op = "frame_failed"
    /\ last.calls = {"event_handler"}
    /\ connected
    /\ Pending # {}

\* C18: connected is True only while the transport self.wsa refers to is
\* open (or was open and its close has not yet been handled), and it is not
\* False while that transport is open.
C18_ConnectedMatchesTransport ==
    /\ connected => (wsa # 0 /\ ws[wsa] \in {"open", "closing"})
    /\ (wsa # 0 /\ ws[wsa] = "open") => connected

\* C19: connect() called while the client is connected starts no transport
\* and leaves ws_url, retry_attemp and connected as they were.
C19_ConnectWhenConnectedIsNoOp ==
    [][(last'.op \in {"connect", "connect_url"} /\ connected)
          => UNCHANGED <<wsa, ws, ws_url, retry_attemp, connected>>
      ]_vars

C19_Witness ==
    /\ last.op = "connect_url"
    /\ connected
    /\ ws_url = "constructor"
    /\ retry_attemp > 0

====
